---- MODULE Spec2Model ----
(***************************************************************************)
(* moonshine_spawn (src/src/lib.rs): the registry of spawnables, the        *)
(* immediate (World) and deferred (Commands) spawn entry points, and the    *)
(* breadth-first pass that turns SpawnChildren components into child        *)
(* entities.                                                                *)
(*                                                                          *)
(* The program is single-threaded with respect to the World: an operation   *)
(* runs to completion before the next one starts.  The model keeps the      *)
(* position inside the running operation in pc, so that the states inside   *)
(* an operation can be inspected, and only the idle state accepts a new     *)
(* operation.  A panic ends the behaviour (pc = "panicked").                *)
(*                                                                          *)
(* A constructor (a Bundle, or a user type implementing Spawn/SpawnOnce) is *)
(* modelled by the bundle it outputs: the components with their values and, *)
(* when the bundle holds a SpawnChildren component, its list of requests.   *)
(*                                                                          *)
(* Spec is the whole crate with keys built from a &str; SpecKeys is the     *)
(* registry with the immediate by-key spawn, with keys built in each way;   *)
(* SpecPass is the by-key spawns with bundles whose SpawnChildren refer to  *)
(* each other's keys, under the fairness of run-to-completion; SpecWith is  *)
(* the key-plus-extra spawns for each key and extra bundle.                 *)
(* origin, firstRegistered, passStart and visited are history variables:    *)
(* they record what was asked for and what a pass has done, and are read    *)
(* only by the properties.                                                  *)
(***************************************************************************)
EXTENDS Integers, Sequences, FiniteSets, TLC

\* Most entities the World may hold (Entity ids are 1..MaxEntities).
MaxEntities == 6

\* Most calls of the spawn entry points (World and Commands together).
MaxSpawns == 2

\* ------------------------------------------------------------------------
\* Values
\* ------------------------------------------------------------------------

\* Component types other than SpawnChildren; a value 0 means "not present".
Types == {"A", "B", "Z"}

NoComponents == [t \in Types |-> 0]

Component(t, v) == [x \in Types |-> IF x = t THEN v ELSE 0]

\* Key names (any string is a legal name; no normalisation).
Names == {"K", "L"}

\* The ways a SpawnKey value is built: From<String>, From<&str>, SpawnKey::new.
\* The field "via" stands for the identity of the separately built value; the
\* struct itself holds the name only.
Vias == {"String", "str", "new"}

SpawnKeyFromString(name) == [name |-> name, via |-> "String"]

SpawnKeyFromStr(name) == [name |-> name, via |-> "str"]

SpawnKeyNew(name) == [name |-> name, via |-> "new"]

\* The keys the callers pass to the spawn entry points and put in requests
\* (built from a &str, as in the tests).
SpawnKeys == {SpawnKeyFromStr(n) : n \in Names}

\* The keys built in each of the ways.
AllSpawnKeys == {SpawnKeyFromString(n) : n \in Names} \cup {SpawnKeyFromStr(n) : n \in Names} \cup {SpawnKeyNew(n) : n \in Names}

\* SpawnKey::name
KeyName(key) == key.name

\* The handle-identity comparison the code does not use.
KeyEqByIdentity(a, b) == a = b

\* impl PartialEq for SpawnKey (and Hash): by name only.
KeyEq(a, b) == KeyName(a) = KeyName(b)

\* A Debug that prints the tuple name without its field.
KeyDebugWithoutField(key) == <<"SpawnKey", "">>

\* impl Debug for SpawnKey: SpawnKey("<name>")
KeyDebug(key) == <<"SpawnKey", KeyName(key)>>

NoKey == [name |-> "", via |-> ""]

\* A bundle: its components and, when hasChildren, the SpawnChildren
\* component it carries (an ordered list of requests).
Bundle(c) == [comps |-> c, hasChildren |-> FALSE, requests |-> <<>>]

\* WithChildren::with_children / spawn_children
WithChildren(c, reqs) == [comps |-> c, hasChildren |-> TRUE, requests |-> reqs]

EmptyBundle == Bundle(NoComponents)

\* The three shapes of a request (Box<dyn SpawnableOnce>): an inline
\* SpawnOnce, a SpawnKey, a SpawnKeyWith(key, bundle).
Inline(b) == [key |-> NoKey, kind |-> "inline", bundle |-> b]

ByKey(k) == [key |-> k, kind |-> "key", bundle |-> EmptyBundle]

ByKeyWith(k, b) == [key |-> k, kind |-> "keywith", bundle |-> b]

NoRequest == [key |-> NoKey, kind |-> "none", bundle |-> EmptyBundle]

\* The SpawnChildren component of an entity (or its absence).
NoSpawnChildren == [requests |-> <<>>, present |-> FALSE]

\* ------------------------------------------------------------------------
\* Inputs: the constructors the callers pass in
\* ------------------------------------------------------------------------

A1 == Component("A", 1)

A2 == Component("A", 2)

B1 == Component("B", 1)

Z1 == Component("Z", 1)

\* What a registered spawnable outputs: a plain bundle, or a bundle whose
\* SpawnChildren refers to the key "K" (its own key when registered as "K").
SpawnableBundles == {Bundle(A1), WithChildren(B1, <<ByKey(SpawnKeyFromStr("K"))>>)}

\* What spawn_with / spawn_once_with are given.
InlineBundles == {Bundle(A1), WithChildren(NoComponents, <<>>), WithChildren(A1, <<Inline(WithChildren(B1, <<Inline(Bundle(Z1))>>))>>), WithChildren(A1, <<Inline(Bundle(B1)), ByKey(SpawnKeyFromStr("K"))>>), WithChildren(A1, <<ByKeyWith(SpawnKeyFromStr("K"), Bundle(Z1))>>)}

\* The key and the extra bundle of spawn_key_with.
ExtraKeys == {SpawnKeyFromStr("K")}

ExtraBundles == {Bundle(Z1), WithChildren(A2, <<Inline(Bundle(B1))>>)}

\* ------------------------------------------------------------------------
\* State
\* ------------------------------------------------------------------------

VARIABLES
    world,          \* the World: per entity its components, SpawnChildren, Children, Parent
    spawnables,     \* Spawnables.0: the HashMap, a set of (key, spawnable) entries
    queue,          \* the Commands queue: closures in enqueue order
    pc,             \* position in the running operation ("idle" between operations)
    caller,         \* what runs: a "World" spawn, a "flush", the "driver" system
    root,           \* the entity a World spawn returns
    entities,       \* invoke_spawn_children: the work list being filled
    batch,          \* invoke_spawn_children: the rest of the generation being drained
    parentEntity,   \* SpawnChildren::invoke: the entity whose SpawnChildren was taken
    children,       \* SpawnChildren::invoke: the requests of children.0 not yet iterated
    entity,         \* the entity the current spawnable is applied to
    spawnable,      \* the spawnable being applied
    cont,           \* where the application of the spawnable returns to
    ret,            \* what the last finished call returned
    panicMsg,       \* the message of the panic, once panicked
    origin,         \* history: per entity, how it was requested
    firstRegistered,\* history: per name, the spawnable of its first successful register
    passStart,      \* history: the World when the running pass began
    visited         \* history: the entities the running pass has taken from its work lists

vars == <<world, spawnables, queue, pc, caller, root, entities, batch, parentEntity, children, entity, spawnable, cont, ret, panicMsg, origin, firstRegistered, passStart, visited>>

passVars == <<entities, batch, parentEntity, children>>

EmptyWorld == [children |-> <<>>, components |-> <<>>, spawnChildren |-> <<>>, parent |-> <<>>]

NoReturn == [key |-> NoKey, kind |-> "none", entity |-> 0]

ReturnEntity(e) == [key |-> NoKey, kind |-> "entity", entity |-> e]

ReturnKey(k) == [key |-> k, kind |-> "key", entity |-> 0]

\* A panic: its message with the key as {key:?} prints it, and (history)
\* the key value the panicking call held.
Panic(msg, key) == [key |-> KeyDebug(key), msg |-> msg, arg |-> key]

NoPanic == Panic("", NoKey)

\* How an entity came to be: by a "World" or "Commands" spawn call or as a
\* "child" of owner, and the spawnable that was asked for.
Origin(ctx, asked, owner) == [spawnable |-> asked, ctx |-> ctx, owner |-> owner]

Init ==
    /\ world = EmptyWorld
    /\ spawnables = {}
    /\ queue = <<>>
    /\ pc = "idle"
    /\ caller = "none"
    /\ root = 0
    /\ entities = <<>>
    /\ batch = <<>>
    /\ parentEntity = 0
    /\ children = <<>>
    /\ entity = 0
    /\ spawnable = NoRequest
    /\ cont = "none"
    /\ ret = NoReturn
    /\ panicMsg = NoPanic
    /\ origin = <<>>
    /\ firstRegistered = {}
    /\ passStart = EmptyWorld
    /\ visited = {}

\* ------------------------------------------------------------------------
\* The World
\* ------------------------------------------------------------------------

Entities(w) == 1..Len(w.components)

\* World::spawn_empty: the id of the entity it creates, and the World after.
NextEntity(w) == Len(w.components) + 1

\* The calls of the spawn entry points so far.
Spawns == Cardinality({e \in 1..Len(origin) : origin[e].ctx # "child"})

SpawnEmpty(w) == [children |-> Append(w.children, <<>>), components |-> Append(w.components, NoComponents), spawnChildren |-> Append(w.spawnChildren, NoSpawnChildren), parent |-> Append(w.parent, 0)]

\* A faulty insert that replaces the components of the entity by the bundle.
InsertReplacing(w, e, b) == [w EXCEPT !.components[e] = b.comps, !.spawnChildren[e] = IF b.hasChildren THEN [requests |-> b.requests, present |-> TRUE] ELSE @]

\* A faulty insert that leaves a component the entity already has as it is
\* (insert_if_new).
InsertIfNew(w, e, b) == [w EXCEPT !.components[e] = [t \in Types |-> IF @[t] # 0 THEN @[t] ELSE b.comps[t]], !.spawnChildren[e] = IF b.hasChildren /\ ~@.present THEN [requests |-> b.requests, present |-> TRUE] ELSE @]

\* EntityWorldMut::insert(bundle): every component of the bundle is set on
\* the entity, replacing a component of the same type.
Insert(w, e, b) == [w EXCEPT !.components[e] = [t \in Types |-> IF b.comps[t] # 0 THEN b.comps[t] ELSE @[t]], !.spawnChildren[e] = IF b.hasChildren THEN [requests |-> b.requests, present |-> TRUE] ELSE @]

\* A faulty take that reads the component and leaves it on the entity.
TakeLeaving(w, e) == w

\* EntityWorldMut::take::<SpawnChildren>(): the component leaves the entity.
Take(w, e) == [w EXCEPT !.spawnChildren[e] = NoSpawnChildren]

\* A faulty add_child that puts the child first.
AddChildFirst(w, e, child) == [w EXCEPT !.children[e] = <<child>> \o @, !.parent[child] = e]

\* EntityWorldMut::add_child(child): the child is appended to Children.
AddChild(w, e, child) == [w EXCEPT !.children[e] = Append(@, child), !.parent[child] = e]

\* Query<(), With<SpawnChildren>>: the entities that carry the component.
WithSpawnChildren(w) == {e \in Entities(w) : w.spawnChildren[e].present}

\* A gate that is always open.
should_spawn_children_always == TRUE

\* should_spawn_children: !query.is_empty()
should_spawn_children == WithSpawnChildren(world) # {}

\* ------------------------------------------------------------------------
\* The registry
\* ------------------------------------------------------------------------

\* A faulty fetch under which an entry is detached from the map while an
\* entity made from it is having its children made.
FetchDetachedWhileInUse(map, key) == IF pc = "spawn_once" /\ cont = "child" /\ origin[parentEntity].spawnable.kind # "inline" /\ KeyEq(origin[parentEntity].spawnable.key, key) THEN {} ELSE {en.spawnable : en \in {x \in map : KeyEq(x.key, key)}}

\* Spawnables::fetch: HashMap::get(key).cloned(); None is {}, Some(x) is {x}.
Fetch(map, key) == {en.spawnable : en \in {x \in map : KeyEq(x.key, key)}}

\* HashMap::insert(key, value): an entry with an equal key keeps its key and
\* takes the new value; otherwise the entry is added.
HashMapInsert(map, key, value) == LET hit == {x \in map : KeyEq(x.key, key)} IN (map \ hit) \cup {[key |-> IF hit = {} THEN key ELSE (CHOOSE x \in hit : TRUE).key, spawnable |-> value]}

\* ------------------------------------------------------------------------
\* Spawnables::register
\* ------------------------------------------------------------------------

\* let previous = self.0.insert(key.clone(), Arc::new(spawnable));
\* assert!(previous.is_none(), "spawn key must be unique: {key:?}"); key
Register(key, value) ==
    /\ pc = "idle"
    /\ LET previous == Fetch(spawnables, key) IN
        /\ spawnables' = HashMapInsert(spawnables, key, value)
        /\ IF previous = {}
            THEN /\ ret' = ReturnKey(key)
                 /\ firstRegistered' = firstRegistered \cup {[name |-> KeyName(key), spawnable |-> value]}
                 /\ UNCHANGED <<pc, panicMsg>>
            ELSE /\ pc' = "panicked"
                 /\ panicMsg' = Panic("spawn key must be unique", key)
                 /\ UNCHANGED <<ret, firstRegistered>>
    /\ UNCHANGED <<world, queue, caller, root, passVars, entity, spawnable, cont, origin, passStart, visited>>

\* ------------------------------------------------------------------------
\* Applying a spawnable to an entity (SpawnableOnce::spawn_once)
\* ------------------------------------------------------------------------

\* A World spawn that returns without scanning for SpawnChildren.
AfterWithoutScan(c) == CASE c = "world" -> "while" [] c = "flush" -> "flush" [] c = "child" -> "child_spawned" [] OTHER -> "idle"

\* A flush that goes on to scan for SpawnChildren as a World spawn does.
AfterFlushScanning(c) == CASE c = "world" -> "scan" [] c = "flush" -> "scan" [] c = "child" -> "child_spawned" [] OTHER -> "idle"

\* Where control goes once the spawnable has been applied: a World spawn
\* calls invoke_spawn_children, a queued closure returns to the flush, a
\* request of a SpawnChildren goes on in SpawnChildren::invoke.
After(c) == CASE c = "world" -> "scan" [] c = "flush" -> "flush" [] c = "child" -> "child_spawned" [] OTHER -> "idle"

\* A faulty SpawnKeyWith::spawn_once that inserts the extra bundle before it
\* applies the key.
SpawnOnceExtraFirst ==
    /\ pc = "spawn_once"
    /\ \/ /\ spawnable.kind = "inline"
          /\ world' = Insert(world, entity, spawnable.bundle)
          /\ pc' = After(cont)
          /\ UNCHANGED panicMsg
       \/ /\ spawnable.kind \in {"key", "keywith"}
          /\ Fetch(spawnables, spawnable.key) # {}
          /\ world' = Insert(world, entity, CHOOSE b \in Fetch(spawnables, spawnable.key) : TRUE)
          /\ pc' = IF spawnable.kind = "key" THEN After(cont) ELSE "insert_extra"
          /\ UNCHANGED panicMsg
       \/ /\ spawnable.kind \in {"key", "keywith"}
          /\ Fetch(spawnables, spawnable.key) = {}
          /\ pc' = "panicked"
          /\ panicMsg' = Panic("invalid spawn key", spawnable.key)
          /\ world' = IF spawnable.kind = "keywith" THEN Insert(world, entity, spawnable.bundle) ELSE world
    /\ UNCHANGED <<spawnables, queue, caller, root, passVars, entity, spawnable, cont, ret, origin, firstRegistered, passStart, visited>>

\* A faulty resolution that takes the entry out of the map and does not put
\* it back.
SpawnOnceDetaching ==
    /\ pc = "spawn_once"
    /\ \/ /\ spawnable.kind = "inline"
          /\ world' = Insert(world, entity, spawnable.bundle)
          /\ pc' = After(cont)
          /\ UNCHANGED <<panicMsg, spawnables>>
       \/ /\ spawnable.kind \in {"key", "keywith"}
          /\ Fetch(spawnables, spawnable.key) # {}
          /\ world' = Insert(world, entity, CHOOSE b \in Fetch(spawnables, spawnable.key) : TRUE)
          /\ pc' = IF spawnable.kind = "key" THEN After(cont) ELSE "insert_extra"
          /\ spawnables' = {en \in spawnables : ~KeyEq(en.key, spawnable.key)}
          /\ UNCHANGED panicMsg
       \/ /\ spawnable.kind \in {"key", "keywith"}
          /\ Fetch(spawnables, spawnable.key) = {}
          /\ pc' = "panicked"
          /\ panicMsg' = Panic("invalid spawn key", spawnable.key)
          /\ UNCHANGED <<world, spawnables>>
    /\ UNCHANGED <<queue, caller, root, passVars, entity, spawnable, cont, ret, origin, firstRegistered, passStart, visited>>

\* A faulty SpawnKeyWith::spawn_once that returns once the key is applied,
\* before the extra bundle is inserted.
SpawnOnceReturningBeforeExtra ==
    /\ pc = "spawn_once"
    /\ \/ /\ spawnable.kind = "inline"
          /\ world' = Insert(world, entity, spawnable.bundle)
          /\ pc' = After(cont)
          /\ UNCHANGED panicMsg
       \/ /\ spawnable.kind \in {"key", "keywith"}
          /\ Fetch(spawnables, spawnable.key) # {}
          /\ world' = Insert(world, entity, CHOOSE b \in Fetch(spawnables, spawnable.key) : TRUE)
          /\ pc' = After(cont)
          /\ UNCHANGED panicMsg
       \/ /\ spawnable.kind \in {"key", "keywith"}
          /\ Fetch(spawnables, spawnable.key) = {}
          /\ pc' = "panicked"
          /\ panicMsg' = Panic("invalid spawn key", spawnable.key)
          /\ UNCHANGED world
    /\ UNCHANGED <<spawnables, queue, caller, root, passVars, entity, spawnable, cont, ret, origin, firstRegistered, passStart, visited>>

\* impl SpawnableOnce for T: SpawnOnce (lines 378-382) and Spawnable for
\* T: Spawn (365-369): the bundle is produced and inserted.
\* impl SpawnableOnce for SpawnKey (389-396): fetch, then the registered
\* spawnable inserts its bundle; no entry is a panic.
\* impl SpawnableOnce for SpawnKeyWith (405-409), first statement: the key
\* is applied; the extra bundle follows in InsertExtra.
SpawnOnce ==
    /\ pc = "spawn_once"
    /\ \/ /\ spawnable.kind = "inline"
          /\ world' = Insert(world, entity, spawnable.bundle)
          /\ pc' = After(cont)
          /\ UNCHANGED panicMsg
       \/ /\ spawnable.kind \in {"key", "keywith"}
          /\ Fetch(spawnables, spawnable.key) # {}
          /\ world' = Insert(world, entity, CHOOSE b \in Fetch(spawnables, spawnable.key) : TRUE)
          /\ pc' = IF spawnable.kind = "key" THEN After(cont) ELSE "insert_extra"
          /\ UNCHANGED panicMsg
       \/ /\ spawnable.kind \in {"key", "keywith"}
          /\ Fetch(spawnables, spawnable.key) = {}
          /\ pc' = "panicked"
          /\ panicMsg' = Panic("invalid spawn key", spawnable.key)
          /\ UNCHANGED world
    /\ UNCHANGED <<spawnables, queue, caller, root, passVars, entity, spawnable, cont, ret, origin, firstRegistered, passStart, visited>>

\* SpawnKeyWith::spawn_once, second statement:
\* world.entity_mut(entity).insert(self.1)
InsertExtra ==
    /\ pc = "insert_extra"
    /\ world' = Insert(world, entity, spawnable.bundle)
    /\ pc' = After(cont)
    /\ UNCHANGED <<spawnables, queue, caller, root, passVars, entity, spawnable, cont, ret, panicMsg, origin, firstRegistered, passStart, visited>>

\* ------------------------------------------------------------------------
\* impl SpawnWorld for World
\* ------------------------------------------------------------------------

\* let entity = self.spawn_empty().id(); then the spawnable is applied, the
\* pass runs and the entity is returned (Return).
WorldSpawn(request) ==
    /\ pc = "idle"
    /\ NextEntity(world) <= MaxEntities
    /\ Spawns < MaxSpawns
    /\ world' = SpawnEmpty(world)
    /\ entity' = NextEntity(world)
    /\ root' = NextEntity(world)
    /\ spawnable' = request
    /\ cont' = "world"
    /\ caller' = "World"
    /\ pc' = "spawn_once"
    /\ ret' = NoReturn
    /\ origin' = Append(origin, Origin("World", request, 0))
    /\ UNCHANGED <<spawnables, queue, passVars, panicMsg, firstRegistered, passStart, visited>>

WorldSpawnWith(b) == WorldSpawn(Inline(b))

WorldSpawnOnceWith(b) == WorldSpawn(Inline(b))

WorldSpawnKey(key) == WorldSpawn(ByKey(key))

WorldSpawnKeyWith(key, b) == WorldSpawn(ByKeyWith(key, b))

\* ------------------------------------------------------------------------
\* impl SpawnCommands for Commands
\* ------------------------------------------------------------------------

\* let entity = self.spawn_empty().id(); self.queue(closure); self.entity(entity)
\* Each entry point queues its own closure; asked is what its caller passed.
CommandsSpawn(asked, closure) ==
    /\ pc = "idle"
    /\ NextEntity(world) <= MaxEntities
    /\ Spawns < MaxSpawns
    /\ world' = SpawnEmpty(world)
    /\ queue' = Append(queue, [entity |-> NextEntity(world), spawnable |-> closure])
    /\ ret' = ReturnEntity(NextEntity(world))
    /\ origin' = Append(origin, Origin("Commands", asked, 0))
    /\ UNCHANGED <<spawnables, pc, caller, root, passVars, entity, spawnable, cont, panicMsg, firstRegistered, passStart, visited>>

\* Spawnable::spawn(&spawnable, world, entity)
CommandsSpawnWith(b) == CommandsSpawn(Inline(b), Inline(b))

\* SpawnableOnce::spawn_once(spawnable, world, entity)
CommandsSpawnOnceWith(b) == CommandsSpawn(Inline(b), Inline(b))

\* key.spawn_once(world, entity)
CommandsSpawnKey(key) == CommandsSpawn(ByKey(key), ByKey(key))

\* A faulty closure that applies the key alone.
CommandsSpawnKeyWithDroppingBundle(key, b) == CommandsSpawn(ByKeyWith(key, b), ByKey(key))

\* SpawnKeyWith(key, bundle).spawn_once(world, entity)
CommandsSpawnKeyWith(key, b) == CommandsSpawn(ByKeyWith(key, b), ByKeyWith(key, b))

\* The command queue is applied: the closures run in enqueue order.
Flush ==
    /\ pc = "idle"
    /\ queue # <<>>
    /\ pc' = "flush"
    /\ caller' = "flush"
    /\ ret' = NoReturn
    /\ UNCHANGED <<world, spawnables, queue, root, passVars, entity, spawnable, cont, panicMsg, origin, firstRegistered, passStart, visited>>

\* The next closure runs, or the flush is over.
FlushNext ==
    /\ pc = "flush"
    /\ IF queue = <<>>
        THEN /\ pc' = "idle"
             /\ caller' = "none"
             /\ entity' = 0
             /\ spawnable' = NoRequest
             /\ cont' = "none"
             /\ UNCHANGED queue
        ELSE /\ pc' = "spawn_once"
             /\ entity' = Head(queue).entity
             /\ spawnable' = Head(queue).spawnable
             /\ cont' = "flush"
             /\ queue' = Tail(queue)
             /\ UNCHANGED caller
    /\ UNCHANGED <<world, spawnables, root, passVars, ret, panicMsg, origin, firstRegistered, passStart, visited>>

\* ------------------------------------------------------------------------
\* invoke_spawn_children and SpawnChildren::invoke
\* ------------------------------------------------------------------------

\* The orders in which a set can be listed.
Orders(S) == IF S = {} THEN {<<>>} ELSE {s \in [1..Cardinality(S) -> S] : \A i, j \in 1..Cardinality(S) : i # j => s[i] # s[j]}

\* A faulty gate-less driver is modelled by should_spawn_children_always.
\* SpawnPlugin::build: invoke_spawn_children.run_if(should_spawn_children),
\* once per update in the First schedule.  A closed gate skips the system.
Driver ==
    /\ pc = "idle"
    /\ IF should_spawn_children
        THEN /\ pc' = "scan"
             /\ caller' = "driver"
             /\ ret' = NoReturn
        ELSE UNCHANGED <<pc, caller, ret>>
    /\ UNCHANGED <<world, spawnables, queue, root, passVars, entity, spawnable, cont, panicMsg, origin, firstRegistered, passStart, visited>>

\* force_spawn_children(): the same system under the same gate, scheduled
\* by the caller.
ForceSpawnChildren ==
    /\ pc = "idle"
    /\ IF should_spawn_children
        THEN /\ pc' = "scan"
             /\ caller' = "driver"
             /\ ret' = NoReturn
        ELSE UNCHANGED <<pc, caller, ret>>
    /\ UNCHANGED <<world, spawnables, queue, root, passVars, entity, spawnable, cont, panicMsg, origin, firstRegistered, passStart, visited>>

\* A faulty scan that, for an immediate spawn, looks at the spawned entity
\* only.
ScanSpawnedOnly ==
    /\ pc = "scan"
    /\ entities' \in Orders(IF caller = "World" THEN WithSpawnChildren(world) \cap {root} ELSE WithSpawnChildren(world))
    /\ passStart' = world
    /\ visited' = {}
    /\ pc' = "while"
    /\ UNCHANGED <<world, spawnables, queue, caller, root, batch, parentEntity, children, entity, spawnable, cont, ret, panicMsg, origin, firstRegistered>>

\* for entity in world.iter_entities() { if entity.contains::<SpawnChildren>()
\* { entities.push(entity.id()) } }.  iter_entities walks the archetypes, so
\* the order of the list is any order of the entities that carry the component.
Scan ==
    /\ pc = "scan"
    /\ entities' \in Orders(WithSpawnChildren(world))
    /\ passStart' = world
    /\ visited' = {}
    /\ pc' = "while"
    /\ UNCHANGED <<world, spawnables, queue, caller, root, batch, parentEntity, children, entity, spawnable, cont, ret, panicMsg, origin, firstRegistered>>

\* A faulty loop that copies the work list and leaves it as it is.
WhileCloning ==
    /\ pc = "while"
    /\ IF entities # <<>>
        THEN /\ batch' = entities
             /\ pc' = "for"
             /\ UNCHANGED <<entities, caller, root, entity, spawnable, cont, ret, passStart, visited>>
        ELSE /\ pc' = "idle"
             /\ ret' = IF caller = "World" THEN ReturnEntity(root) ELSE NoReturn
             /\ caller' = "none"
             /\ root' = 0
             /\ entity' = 0
             /\ spawnable' = NoRequest
             /\ cont' = "none"
             /\ passStart' = EmptyWorld
             /\ visited' = {}
             /\ UNCHANGED <<entities, batch>>
    /\ UNCHANGED <<world, spawnables, queue, parentEntity, children, panicMsg, origin, firstRegistered>>

\* while !entities.is_empty() { let batch = std::mem::take(&mut entities); ... }
\* and, once the list is empty, the return of the pass to its caller: a
\* World spawn returns self.entity_mut(entity).
While ==
    /\ pc = "while"
    /\ IF entities # <<>>
        THEN /\ batch' = entities
             /\ entities' = <<>>
             /\ pc' = "for"
             /\ UNCHANGED <<caller, root, entity, spawnable, cont, ret, passStart, visited>>
        ELSE /\ pc' = "idle"
             /\ ret' = IF caller = "World" THEN ReturnEntity(root) ELSE NoReturn
             /\ caller' = "none"
             /\ root' = 0
             /\ entity' = 0
             /\ spawnable' = NoRequest
             /\ cont' = "none"
             /\ passStart' = EmptyWorld
             /\ visited' = {}
             /\ UNCHANGED <<entities, batch>>
    /\ UNCHANGED <<world, spawnables, queue, parentEntity, children, panicMsg, origin, firstRegistered>>

\* for entity in batch { SpawnChildren::invoke(world, entity, ..) }, up to
\* if let Some(children) = world.entity_mut(entity).take::<SpawnChildren>()
For ==
    /\ pc = "for"
    /\ IF batch = <<>>
        THEN /\ pc' = "while"
             /\ UNCHANGED <<world, batch, parentEntity, children>>
        ELSE /\ batch' = Tail(batch)
             /\ IF world.spawnChildren[Head(batch)].present
                 THEN /\ world' = Take(world, Head(batch))
                      /\ parentEntity' = Head(batch)
                      /\ children' = world.spawnChildren[Head(batch)].requests
                      /\ pc' = "invoke"
                 ELSE UNCHANGED <<world, parentEntity, children, pc>>
    /\ visited' = IF batch = <<>> THEN visited ELSE visited \cup {Head(batch)}
    /\ UNCHANGED <<spawnables, queue, caller, root, entities, entity, spawnable, cont, ret, panicMsg, origin, firstRegistered, passStart>>

\* A faulty loop body that attaches the child before the spawnable is
\* applied to it.
InvokeAttachingFirst ==
    /\ pc = "invoke"
    /\ IF children = <<>>
        THEN /\ pc' = "for"
             /\ parentEntity' = 0
             /\ UNCHANGED <<world, children, entity, spawnable, cont, origin>>
        ELSE /\ NextEntity(world) <= MaxEntities
             /\ world' = AddChild(SpawnEmpty(world), parentEntity, NextEntity(world))
             /\ entity' = NextEntity(world)
             /\ spawnable' = Head(children)
             /\ children' = Tail(children)
             /\ cont' = "child"
             /\ pc' = "spawn_once"
             /\ origin' = Append(origin, Origin("child", Head(children), parentEntity))
             /\ UNCHANGED parentEntity
    /\ UNCHANGED <<spawnables, queue, caller, root, entities, batch, ret, panicMsg, firstRegistered, passStart, visited>>

\* for spawnable in children.0 { let child = world.spawn_empty().id();
\* spawnable.spawn_once_dyn(world, child); ... }
Invoke ==
    /\ pc = "invoke"
    /\ IF children = <<>>
        THEN /\ pc' = "for"
             /\ parentEntity' = 0
             /\ UNCHANGED <<world, children, entity, spawnable, cont, origin>>
        ELSE /\ NextEntity(world) <= MaxEntities
             /\ world' = SpawnEmpty(world)
             /\ entity' = NextEntity(world)
             /\ spawnable' = Head(children)
             /\ children' = Tail(children)
             /\ cont' = "child"
             /\ pc' = "spawn_once"
             /\ origin' = Append(origin, Origin("child", Head(children), parentEntity))
             /\ UNCHANGED parentEntity
    /\ UNCHANGED <<spawnables, queue, caller, root, entities, batch, ret, panicMsg, firstRegistered, passStart, visited>>

\* A faulty callback that puts the child at the front of the list being
\* drained, so that it is taken next (depth first).
ChildSpawnedDepthFirst ==
    /\ pc = "child_spawned"
    /\ batch' = <<entity>> \o batch
    /\ pc' = "add_child"
    /\ UNCHANGED <<world, spawnables, queue, caller, root, entities, parentEntity, children, entity, spawnable, cont, ret, panicMsg, origin, firstRegistered, passStart, visited>>

\* child_spawned(child): |child| entities.push(child)
ChildSpawned ==
    /\ pc = "child_spawned"
    /\ entities' = Append(entities, entity)
    /\ pc' = "add_child"
    /\ UNCHANGED <<world, spawnables, queue, caller, root, batch, parentEntity, children, entity, spawnable, cont, ret, panicMsg, origin, firstRegistered, passStart, visited>>

\* world.entity_mut(entity).add_child(child)
AddChildStep ==
    /\ pc = "add_child"
    /\ world' = AddChild(world, parentEntity, entity)
    /\ pc' = "invoke"
    /\ UNCHANGED <<spawnables, queue, caller, root, passVars, entity, spawnable, cont, ret, panicMsg, origin, firstRegistered, passStart, visited>>

\* ------------------------------------------------------------------------
\* The program
\* ------------------------------------------------------------------------

Next ==
    \/ \E key \in SpawnKeys, value \in SpawnableBundles : Register(key, value)
    \/ \E b \in InlineBundles : WorldSpawnWith(b)
    \/ \E b \in InlineBundles : WorldSpawnOnceWith(b)
    \/ \E key \in SpawnKeys : WorldSpawnKey(key)
    \/ \E key \in ExtraKeys, b \in ExtraBundles : WorldSpawnKeyWith(key, b)
    \/ \E b \in InlineBundles : CommandsSpawnWith(b)
    \/ \E b \in InlineBundles : CommandsSpawnOnceWith(b)
    \/ \E key \in SpawnKeys : CommandsSpawnKey(key)
    \/ \E key \in ExtraKeys, b \in ExtraBundles : CommandsSpawnKeyWith(key, b)
    \/ Flush
    \/ FlushNext
    \/ Driver
    \/ ForceSpawnChildren
    \/ SpawnOnce
    \/ InsertExtra
    \/ Scan
    \/ While
    \/ For
    \/ Invoke
    \/ ChildSpawned
    \/ AddChildStep

Spec == Init /\ [][Next]_vars

\* The registry and the immediate by-key spawns, with the keys built in each
\* of the ways (From<String>, From<&str>, SpawnKey::new).
NextKeys ==
    \/ \E key \in AllSpawnKeys, value \in SpawnableBundles : Register(key, value)
    \/ \E key \in AllSpawnKeys : WorldSpawnKey(key)
    \/ SpawnOnce
    \/ Scan
    \/ While
    \/ For
    \/ Invoke
    \/ ChildSpawned
    \/ AddChildStep

SpecKeys == Init /\ [][NextKeys]_vars

\* The steps of a running operation.  Nothing suspends an operation: a spawn,
\* a flush or a pass that has started goes on until it returns or panics.
Running == SpawnOnce \/ InsertExtra \/ FlushNext \/ Scan \/ While \/ For \/ Invoke \/ ChildSpawned \/ AddChildStep

\* What the spawnables registered in SpecPass output: as SpawnableBundles,
\* and a bundle whose SpawnChildren refers to the key "L".
PassBundles == SpawnableBundles \cup {WithChildren(A1, <<ByKey(SpawnKeyFromStr("L"))>>)}

\* The registry, the by-key spawns (immediate and deferred), the flush and
\* the driver, each operation running to completion.
NextPass ==
    \/ \E key \in SpawnKeys, value \in PassBundles : Register(key, value)
    \/ \E key \in SpawnKeys : WorldSpawnKey(key)
    \/ \E key \in SpawnKeys : CommandsSpawnKey(key)
    \/ Flush
    \/ FlushNext
    \/ Driver
    \/ SpawnOnce
    \/ Scan
    \/ While
    \/ For
    \/ Invoke
    \/ ChildSpawned
    \/ AddChildStep

SpecPass == Init /\ [][NextPass]_vars /\ WF_vars(Running)

\* What spawn_with is given in SpecWith: a bundle whose SpawnChildren holds
\* one key-plus-extra request, for each key and each extra bundle.
WithBundles == {WithChildren(A1, <<ByKeyWith(k, x)>>) : k \in SpawnKeys, x \in ExtraBundles}

\* The registry and the key-plus-extra spawns: as a request of a
\* SpawnChildren, immediate and deferred.
NextWith ==
    \/ \E key \in SpawnKeys, value \in SpawnableBundles : Register(key, value)
    \/ \E b \in WithBundles : WorldSpawnWith(b)
    \/ \E key \in SpawnKeys, b \in ExtraBundles : WorldSpawnKeyWith(key, b)
    \/ \E key \in SpawnKeys, b \in ExtraBundles : CommandsSpawnKeyWith(key, b)
    \/ Flush
    \/ FlushNext
    \/ Driver
    \/ SpawnOnce
    \/ InsertExtra
    \/ Scan
    \/ While
    \/ For
    \/ Invoke
    \/ ChildSpawned
    \/ AddChildStep

SpecWith == Init /\ [][NextWith]_vars

\* ------------------------------------------------------------------------
\* What the requests describe (used to state the properties; computed from
\* the history of registrations, not from the operations above)
\* ------------------------------------------------------------------------

RegisteredNames == {r.name : r \in firstRegistered}

\* The spawnable first registered under a name.
FirstSpawnable(name) == (CHOOSE r \in firstRegistered : r.name = name).spawnable

\* The components of base with those of extra set over them.
Overlay(base, extra) == [t \in Types |-> IF extra[t] # 0 THEN extra[t] ELSE base[t]]

\* A request can be resolved when it names no key or a registered one.
Resolvable(req) == req.kind = "inline" \/ KeyName(req.key) \in RegisteredNames

\* The bundle a resolvable request describes.
Described(req) ==
    CASE req.kind = "inline" -> req.bundle
      [] req.kind = "key" -> FirstSpawnable(KeyName(req.key))
      [] req.kind = "keywith" ->
            LET base == FirstSpawnable(KeyName(req.key)) IN
            [comps |-> Overlay(base.comps, req.bundle.comps), hasChildren |-> base.hasChildren \/ req.bundle.hasChildren, requests |-> IF req.bundle.hasChildren THEN req.bundle.requests ELSE base.requests]

RECURSIVE FiniteWithin(_, _)
\* The ledger tree of the request is finite, of depth below fuel.
FiniteWithin(req, fuel) == /\ fuel > 0
                           /\ Resolvable(req)
                           /\ \A i \in 1..Len(Described(req).requests) : FiniteWithin(Described(req).requests[i], fuel - 1)

Finite(req) == FiniteWithin(req, MaxEntities + 1)

RECURSIVE DescribedTree(_)
\* The tree a request with a finite ledger tree describes: the components of
\* the entity and, in request order, the trees of its children.
DescribedTree(req) == [comps |-> Described(req).comps, kids |-> [i \in 1..Len(Described(req).requests) |-> DescribedTree(Described(req).requests[i])]]

RECURSIVE EntityTree(_, _)
\* The tree below an entity of the World, in Children order.
EntityTree(w, e) == [comps |-> w.components[e], kids |-> [i \in 1..Len(w.children[e]) |-> EntityTree(w, w.children[e][i])]]

RECURSIVE Subtree(_, _)
\* The entities of the tree below an entity, itself included.
Subtree(w, e) == {e} \cup UNION {Subtree(w, w.children[e][i]) : i \in 1..Len(w.children[e])}

Roots(ctx) == {e \in 1..Len(origin) : origin[e].ctx = ctx}

\* A pass is running (or has panicked inside SpawnChildren::invoke).
InPass == pc \in {"while", "for", "invoke", "child_spawned", "add_child"} \/ (pc \in {"spawn_once", "insert_extra", "panicked"} /\ cont = "child")

\* The entities the running pass has created.
CreatedInPass == {e \in Entities(world) : e > Len(passStart.components)}

\* The requests of the SpawnChildren an entity brings to the running pass:
\* those it carried when the pass began or, for an entity the pass created,
\* those of the bundle its request describes.
LedgerOf(e) == IF e \in Entities(passStart) THEN passStart.spawnChildren[e].requests ELSE Described(origin[e].spawnable).requests

\* The requests the running pass has created an entity for on behalf of the
\* owner e, in the order of creation.
MadeFor(e) == LET made == SelectSeq([c \in 1..Len(origin) |-> c], LAMBDA c : c \in CreatedInPass /\ origin[c].ctx = "child" /\ origin[c].owner = e) IN [i \in 1..Len(made) |-> origin[made[i]].spawnable]

RECURSIVE Generation(_)
\* The generation of an entity in the running pass: 1 for an entity that
\* existed when the pass began, one more than its owner's for an entity the
\* pass created.
Generation(e) == IF e \in Entities(passStart) THEN 1 ELSE 1 + Generation(origin[e].owner)

\* The entities the running pass works on.
InWorkLists == WithSpawnChildren(passStart) \cup CreatedInPass

\* The pass is done with the entity: it took it, is not iterating its
\* SpawnChildren any more, and made an entity for each request.
Drained(e) == e \in visited /\ e # parentEntity /\ MadeFor(e) = LedgerOf(e)

\* The entities the running pass created and attached to e.
AttachedInPass(e) == {c \in CreatedInPass : world.parent[c] = e}

RECURSIVE TreeSize(_), LedgerSize(_)
\* The number of entities the tree of a request with a finite ledger tree has.
TreeSize(req) == 1 + LedgerSize(Described(req).requests)

\* The number of entities a list of such requests describes.
LedgerSize(reqs) == IF reqs = <<>> THEN 0 ELSE TreeSize(Head(reqs)) + LedgerSize(Tail(reqs))

\* Every request waiting in a SpawnChildren of the World has a finite ledger tree.
PendingFinite(w) == \A e \in WithSpawnChildren(w) : \A i \in 1..Len(w.spawnChildren[e].requests) : Finite(w.spawnChildren[e].requests[i])

RECURSIVE PendingOf(_, _)
\* The number of entities the SpawnChildren of the entities in S describe.
PendingOf(w, S) == IF S = {} THEN 0 ELSE LET e == CHOOSE x \in S : TRUE IN LedgerSize(w.spawnChildren[e].requests) + PendingOf(w, S \ {e})

\* ------------------------------------------------------------------------
\* Properties
\* ------------------------------------------------------------------------

\* C1: when an immediate (World) spawn of a constructor with a finite
\* ledger tree has returned, the root carries the constructor's bundle and
\* every descendant of the transitive ledger tree exists and is attached;
\* nothing in the tree still waits in a SpawnChildren component.
ImmediateSpawnIsComplete ==
    pc = "idle" =>
        \A e \in Roots("World") :
            Finite(origin[e].spawnable) =>
                /\ EntityTree(world, e) = DescribedTree(origin[e].spawnable)
                /\ \A d \in Subtree(world, e) : ~world.spawnChildren[d].present

\* A World spawn has just returned a root with a child and a grandchild.
ImmediateSpawnWitness ==
    /\ pc = "idle"
    /\ ret.kind = "entity"
    /\ ret.entity \in Roots("World")
    /\ Finite(origin[ret.entity].spawnable)
    /\ \E c \in 1..Len(world.parent) : world.parent[c] = ret.entity /\ world.children[c] # <<>>

\* C2: when a pass has run to its end, every entity that carried a
\* SpawnChildren with requests r1..rn at its start has exactly n new
\* children, the i-th of them is the tree ri describes, and no entity
\* carries a SpawnChildren.
PassMirrorsLedgers ==
    (pc = "while" /\ entities = <<>>) =>
        /\ WithSpawnChildren(world) = {}
        /\ \A e \in WithSpawnChildren(passStart) :
            LET reqs == passStart.spawnChildren[e].requests
                before == Len(passStart.children[e])
            IN  /\ Len(world.children[e]) = before + Len(reqs)
                /\ \A i \in 1..Len(reqs) : EntityTree(world, world.children[e][before + i]) = DescribedTree(reqs[i])

\* A pass ends that has built root {A} -> child {B} -> grandchild {Z}.
PassMirrorsLedgersWitness ==
    /\ pc = "while"
    /\ entities = <<>>
    /\ \E e \in WithSpawnChildren(passStart) :
        /\ world.components[e] = A1
        /\ Len(world.children[e]) = 1
        /\ world.components[world.children[e][1]] = B1
        /\ Len(world.children[world.children[e][1]]) = 1
        /\ world.components[world.children[world.children[e][1]][1]] = Z1

\* C3: register panics exactly when the registry already holds a key of the
\* same name, however the two keys were built; otherwise it adds the entry
\* and returns the key it was given.
RegisterFailsOnEqualName ==
    [][\A key \in AllSpawnKeys, value \in SpawnableBundles :
        Register(key, value) =>
            IF \E en \in spawnables : en.key.name = key.name
                THEN pc' = "panicked" /\ panicMsg'.msg = "spawn key must be unique"
                ELSE /\ pc' = "idle"
                     /\ ret' = ReturnKey(key)
                     /\ spawnables' = spawnables \cup {[key |-> key, spawnable |-> value]}]_vars

\* register has panicked on a key that was built in another way than the
\* registered key of the same name.
RegisterFailsWitness ==
    /\ pc = "panicked"
    /\ panicMsg.msg = "spawn key must be unique"
    /\ \E en \in spawnables : en.key.name = panicMsg.arg.name /\ en.key # panicMsg.arg

\* C4: applying a key that has no registry entry (immediate, at flush time,
\* or for a request) panics with "invalid spawn key", and the entity created
\* for the spawn then has no component: not the extra bundle of
\* spawn_key_with either.
UnknownKeyPanicsOnEmptyEntity ==
    [][(/\ pc = "spawn_once"
        /\ spawnable.kind \in {"key", "keywith"}
        /\ \A en \in spawnables : en.key.name # spawnable.key.name)
        => (/\ pc' = "panicked"
            /\ panicMsg'.msg = "invalid spawn key"
            /\ world'.components[entity] = NoComponents
            /\ ~world'.spawnChildren[entity].present
            /\ world'.children[entity] = <<>>)]_vars

\* A deferred spawn_key_with has panicked at flush time.
UnknownKeyWitness ==
    /\ pc = "panicked"
    /\ panicMsg.msg = "invalid spawn key"
    /\ spawnable.kind = "keywith"
    /\ cont = "flush"
    /\ world.components[entity] = NoComponents

\* C5: once a spawnable is registered under a key, every application of the
\* key puts exactly that spawnable's components on a new entity that had
\* none, and leaves every other entity as it was; every spawn call creates
\* one new entity; and no step of a spawn, a flush or a driver run changes
\* the registry.
KeySpawnsRepeatAndRegistryIsStable ==
    [][/\ (pc = "spawn_once" /\ spawnable.kind = "key" /\ KeyName(spawnable.key) \in RegisteredNames)
            => /\ pc' # "panicked"
               /\ world.components[entity] = NoComponents
               /\ world'.components[entity] = FirstSpawnable(KeyName(spawnable.key)).comps
               /\ \A e \in Entities(world) \ {entity} : world'.components[e] = world.components[e]
       /\ (Len(origin') > Len(origin))
            => /\ Len(world'.components) = Len(world.components) + 1
               /\ \A e \in Entities(world) : world'.components[e] = world.components[e]
       /\ (pc # "idle" \/ world' # world \/ pc' \notin {"idle", "panicked"})
            => spawnables' = spawnables]_vars

\* Two entities were spawned by the same key and both carry the registered
\* components.
KeySpawnsRepeatWitness ==
    /\ pc = "idle"
    /\ \E e1, e2 \in Roots("World") \cup Roots("Commands") :
        /\ e1 # e2
        /\ origin[e1].spawnable.kind = "key"
        /\ KeyName(origin[e1].spawnable.key) \in RegisteredNames
        /\ origin[e2].spawnable = origin[e1].spawnable
        /\ world.components[e1] = FirstSpawnable(KeyName(origin[e1].spawnable.key)).comps
        /\ world.components[e2] = world.components[e1]
        /\ world.components[e1] # NoComponents

\* C6: a child made from a by-key request is attached to the owner of the
\* SpawnChildren and carries exactly the components registered under the
\* key; a child made from a key-plus-extra request whose extra bundle shares
\* no component type with the registered one carries exactly both.
KeyChildrenCarryRegisteredBundle ==
    /\ pc = "idle" => \A e \in Roots("child") : world.parent[e] # 0
    /\ \A e \in Roots("child") :
        world.parent[e] # 0 =>
            LET req == origin[e].spawnable
                base == FirstSpawnable(KeyName(req.key)).comps
                extra == req.bundle.comps
            IN  /\ world.parent[e] = origin[e].owner
                /\ \E i \in 1..Len(world.children[origin[e].owner]) : world.children[origin[e].owner][i] = e
                /\ req.kind = "key" => world.components[e] = base
                /\ (req.kind = "keywith" /\ \A t \in Types : base[t] = 0 \/ extra[t] = 0)
                        => world.components[e] = [t \in Types |-> base[t] + extra[t]]

\* A child made from a key-plus-extra request carries {A, Z}.
KeyChildrenWitness ==
    /\ pc = "idle"
    /\ \E e \in Roots("child") :
        /\ origin[e].spawnable.kind = "keywith"
        /\ world.parent[e] # 0
        /\ world.components[e] = [t \in Types |-> IF t \in {"A", "Z"} THEN 1 ELSE 0]

\* A Commands spawn creates the entity at once, empty, queues one closure
\* for it and returns its handle.
DeferredSpawnReturnsEmptyEntity ==
    Len(queue') > Len(queue) =>
        LET e == Len(world'.components) IN
        /\ e = Len(world.components) + 1
        /\ world'.components[e] = NoComponents
        /\ ~world'.spawnChildren[e].present
        /\ world'.children[e] = <<>>
        /\ queue' = Append(queue, queue'[Len(queue')])
        /\ queue'[Len(queue')].entity = e
        /\ ret' = ReturnEntity(e)
        /\ pc' = "idle"

\* An entity whose closure is still queued has nothing on it.
QueuedEntityIsEmpty ==
    \A i \in 1..Len(queue) :
        /\ world.components[queue[i].entity] = NoComponents
        /\ ~world.spawnChildren[queue[i].entity].present
        /\ world.children[queue[i].entity] = <<>>

\* A flush creates no entity and no parent/child link, takes no
\* SpawnChildren away, and a closure touches only the entity it was queued for.
FlushOnlyInstallsBundles ==
    caller = "flush" =>
        /\ Len(world'.components) = Len(world.components)
        /\ world'.children = world.children
        /\ world'.parent = world.parent
        /\ \A e \in Entities(world) :
            /\ world.spawnChildren[e].present => world'.spawnChildren[e].present
            /\ e # entity => (world'.components[e] = world.components[e] /\ world'.spawnChildren[e] = world.spawnChildren[e])

\* When a pass returns, no root of a deferred spawn waits for children.
PassLeavesNoDeferredLedger ==
    (pc = "while" /\ pc' = "idle") => \A e \in Roots("Commands") : ~world'.spawnChildren[e].present

\* The root of a deferred spawn gets a child only in a run of the driver.
DeferredChildrenByDriverOnly ==
    \A e \in Roots("Commands") : Len(world'.children[e]) > Len(world.children[e]) => caller = "driver"

\* The root of a deferred spawn gets a child only in a pass: a run of the
\* driver, or the pass of an immediate spawn.
DeferredChildrenByPassOnly ==
    \A e \in Roots("Commands") : Len(world'.children[e]) > Len(world.children[e]) => (pc = "add_child" /\ caller \in {"driver", "World"})

\* C7 as stated: a deferred spawn returns an empty entity at once, the flush
\* installs the bundle on that entity and materializes no child, and the
\* root has no children until the next run of the automatic or forced driver.
DeferredSpawnWaitsForDriver ==
    [][DeferredSpawnReturnsEmptyEntity /\ QueuedEntityIsEmpty /\ FlushOnlyInstallsBundles /\ PassLeavesNoDeferredLedger /\ DeferredChildrenByDriverOnly]_vars

\* C7 amended: ... the root has no children until the next run of the
\* child-resolution pass, be it a run of the automatic or forced driver or
\* the pass inside an immediate (World) spawn.
DeferredSpawnWaitsForPass ==
    [][DeferredSpawnReturnsEmptyEntity /\ QueuedEntityIsEmpty /\ FlushOnlyInstallsBundles /\ PassLeavesNoDeferredLedger /\ DeferredChildrenByPassOnly]_vars

\* A deferred spawn was flushed: its root carries components and a
\* SpawnChildren with a request, and has no child yet.
DeferredSpawnWitness ==
    /\ pc = "idle"
    /\ queue = <<>>
    /\ \E e \in Roots("Commands") :
        /\ world.components[e] # NoComponents
        /\ world.spawnChildren[e].present
        /\ world.spawnChildren[e].requests # <<>>
        /\ world.children[e] = <<>>

\* C8: a constructor spawned immediately, and the same constructor spawned
\* deferred, flushed and passed over by the driver, give the same components
\* on the entity and the same tree of descendants.
DeferredEquivalence ==
    (pc = "idle" /\ WithSpawnChildren(world) = {}) =>
        \A e1 \in Roots("World"), e2 \in Roots("Commands") :
            (/\ origin[e1].spawnable = origin[e2].spawnable
             /\ \A i \in 1..Len(queue) : queue[i].entity # e2)
                => EntityTree(world, e1) = EntityTree(world, e2)

\* The same constructor, one with children, was spawned both ways and both
\* trees are built.
DeferredEquivalenceWitness ==
    /\ pc = "idle"
    /\ WithSpawnChildren(world) = {}
    /\ queue = <<>>
    /\ \E e1 \in Roots("World"), e2 \in Roots("Commands") :
        /\ origin[e1].spawnable = origin[e2].spawnable
        /\ world.children[e1] # <<>>
        /\ world.children[e2] # <<>>

\* C9: when a pass returns no entity carries a SpawnChildren, and while no
\* entity carries one a run of the driver is skipped: no pass starts and
\* nothing changes.
DriverDrainsThenSkips ==
    [][/\ (pc = "while" /\ pc' = "idle") => WithSpawnChildren(world') = {}
       /\ (pc = "idle" /\ WithSpawnChildren(world) = {}) => (pc' # "scan" /\ caller' # "driver")
       /\ (pc = "idle" /\ caller' = "driver") => (WithSpawnChildren(world) # {} /\ pc' = "scan" /\ world' = world)]_vars

\* Only the driver has built children (of a deferred spawn), and no entity
\* carries a SpawnChildren: the next run of the driver is skipped.
DriverSkipsWitness ==
    /\ pc = "idle"
    /\ WithSpawnChildren(world) = {}
    /\ Roots("World") = {}
    /\ \E e \in Roots("Commands") : world.children[e] # <<>>

\* C10: every entry of the registry holds the spawnable of the first
\* successful registration of its name, also after a register that failed.
RegistryKeepsFirstRegistration ==
    \A en \in spawnables :
        /\ KeyName(en.key) \in RegisteredNames
        /\ en.spawnable = FirstSpawnable(KeyName(en.key))

\* C11: each of the two panics prints the key that caused it.  A register
\* that panics prints the name of the key it was called with, which is the
\* name of an entry the registry held already; an application of a key that
\* panics prints the name of the key being applied, which no entry of the
\* registry holds.  Nothing else panics.
FailuresReportOffendingKey ==
    [][/\ \A key \in SpawnKeys, value \in SpawnableBundles :
            (Register(key, value) /\ pc' = "panicked")
                => /\ panicMsg'.msg = "spawn key must be unique"
                   /\ panicMsg'.key = <<"SpawnKey", key.name>>
                   /\ \E en \in spawnables : en.key.name = key.name
       /\ (pc = "spawn_once" /\ pc' = "panicked")
                => /\ panicMsg'.msg = "invalid spawn key"
                   /\ panicMsg'.key = <<"SpawnKey", spawnable.key.name>>
                   /\ \A en \in spawnables : en.key.name # spawnable.key.name
       /\ (pc # "panicked" /\ pc' = "panicked") => pc \in {"idle", "spawn_once"}
       /\ pc' # "panicked" => panicMsg' = NoPanic]_vars

\* A request of a SpawnChildren named the unregistered key "K" while "L" was
\* registered, and the panic printed "K".
FailuresReportWitness ==
    /\ pc = "panicked"
    /\ panicMsg.msg = "invalid spawn key"
    /\ panicMsg.key = <<"SpawnKey", "K">>
    /\ cont = "child"
    /\ \E en \in spawnables : en.key.name = "L"

LedgersDrainOnceState ==
    InPass =>
        /\ \A i, j \in 1..Len(batch \o entities) : i # j => (batch \o entities)[i] # (batch \o entities)[j]
        /\ \A i \in 1..Len(batch \o entities) : (batch \o entities)[i] \notin visited
        /\ \A e \in Entities(world) :
            IF e \notin visited THEN MadeFor(e) = <<>>
            ELSE IF e = parentEntity THEN MadeFor(e) \o children = LedgerOf(e)
            ELSE MadeFor(e) = LedgerOf(e)

\* C13: each SpawnChildren is drained exactly once.  The scan lists each
\* entity that carries one once; the component is taken from its owner in
\* the step that starts its iteration, before any child is created; an
\* entity is taken from the work lists at most once in a pass; each
\* iteration creates one entity for one request; and taking an entity that
\* carries no SpawnChildren changes nothing.
LedgersDrainOnce ==
    [][/\ LedgersDrainOnceState
       /\ pc = "scan" =>
            /\ {entities'[i] : i \in 1..Len(entities')} = WithSpawnChildren(world)
            /\ Len(entities') = Cardinality(WithSpawnChildren(world))
       /\ (pc = "for" /\ batch # <<>>) =>
            /\ Head(batch) \notin visited
            /\ Len(world'.components) = Len(world.components)
            /\ ~world'.spawnChildren[Head(batch)].present
            /\ IF world.spawnChildren[Head(batch)].present
                THEN children' = world.spawnChildren[Head(batch)].requests /\ parentEntity' = Head(batch)
                ELSE world' = world /\ entities' = entities /\ pc' = "for"
       /\ Len(origin') > Len(origin) /\ origin'[Len(origin')].ctx = "child" =>
            /\ pc = "invoke"
            /\ origin'[Len(origin')].owner = parentEntity
            /\ ~world.spawnChildren[parentEntity].present
            /\ Len(world'.components) = Len(world.components) + 1
            /\ children # <<>>
            /\ origin'[Len(origin')].spawnable = Head(children)
            /\ children' = Tail(children)]_vars

\* A pass has come to its end after it drained a SpawnChildren of two
\* requests and took a child that carried none.
LedgersDrainOnceWitness ==
    /\ pc = "while"
    /\ entities = <<>>
    /\ \E e \in visited :
        /\ Len(LedgerOf(e)) = 2
        /\ Len(world.children[e]) = 2
        /\ \E c \in visited : world.parent[c] = e /\ LedgerOf(c) = <<>>

\* The list being drained holds one generation, the list being filled the
\* next one (the first one after the scan), whose owners have been taken;
\* nothing of a later generation has
\* been taken; and every entity of an earlier generation than the one being
\* drained is done with.
BreadthFirstState ==
    InPass =>
        LET now == {batch[i] : i \in 1..Len(batch)} \cup ({parentEntity} \ {0})
            next == {entities[i] : i \in 1..Len(entities)}
        IN  /\ \A x, y \in now : Generation(x) = Generation(y)
            /\ \A x \in now, y \in next : Generation(y) = Generation(x) + 1
            /\ \A x \in now, v \in visited : Generation(v) <= Generation(x)
            /\ \A y \in next, v \in visited : Generation(v) < Generation(y)
            /\ \A y \in next : IF y \in CreatedInPass THEN origin[y].owner \in visited ELSE Generation(y) = 1
            /\ \A x \in now, u \in InWorkLists : Generation(u) < Generation(x) => Drained(u)

\* C14: the pass is breadth-first by generation.  An entity is taken for
\* draining only when every entity of an earlier generation is done with; a
\* child created while its owner is drained goes on the list of the next
\* generation and is taken only after its owner is done with; and a child
\* is created only for an owner that is itself attached to its parent.
BreadthFirstByGeneration ==
    [][/\ BreadthFirstState
       /\ (pc = "for" /\ batch # <<>>) =>
            /\ parentEntity = 0
            /\ \A v \in visited : Generation(v) <= Generation(Head(batch))
            /\ \A u \in InWorkLists : Generation(u) < Generation(Head(batch)) => Drained(u)
            /\ Head(batch) \in CreatedInPass => Drained(origin[Head(batch)].owner)
       /\ pc = "child_spawned" =>
            /\ entity \in {entities'[i] : i \in 1..Len(entities')}
            /\ batch' = batch
       /\ (Len(origin') > Len(origin) /\ origin'[Len(origin')].ctx = "child") =>
            LET owner == origin'[Len(origin')].owner IN
            owner \in CreatedInPass => (world.parent[owner] # 0 /\ world.parent[owner] = origin[owner].owner)]_vars

\* Two entities of the first generation were drained, each of a SpawnChildren
\* with requests, and an entity of the second generation is taken next.
BreadthFirstWitness ==
    /\ pc = "for"
    /\ batch # <<>>
    /\ Generation(Head(batch)) = 2
    /\ \E r1, r2 \in visited :
        /\ r1 # r2
        /\ Generation(r1) = 1 /\ LedgerOf(r1) # <<>>
        /\ Generation(r2) = 1 /\ LedgerOf(r2) # <<>>

ResolutionKeepsEntries ==
    [][/\ \A name \in RegisteredNames : \E en \in spawnables : KeyName(en.key) = name
       /\ pc # "idle" => {KeyName(en.key) : en \in spawnables'} = {KeyName(en.key) : en \in spawnables}
       /\ (pc = "spawn_once" /\ spawnable.kind \in {"key", "keywith"} /\ KeyName(spawnable.key) \in RegisteredNames) =>
            /\ pc' # "panicked"
            /\ world'.components[entity] = FirstSpawnable(KeyName(spawnable.key)).comps
       /\ (pc # "idle" /\ pc' = "panicked") =>
            /\ panicMsg'.msg = "invalid spawn key"
            /\ KeyName(spawnable.key) \notin RegisteredNames]_vars

\* The key "K" was resolved for a child of an entity that was itself made
\* from "K".
ResolutionKeepsEntriesWitness ==
    /\ pc = "child_spawned"
    /\ spawnable = ByKey(SpawnKeyFromStr("K"))
    /\ origin[parentEntity].spawnable = ByKey(SpawnKeyFromStr("K"))
    /\ world.components[entity] = B1

\* A request of a SpawnChildren is about to be applied and names a key the
\* registry does not hold.
UnknownKeyInLedger ==
    /\ pc = "spawn_once"
    /\ cont = "child"
    /\ spawnable.kind \in {"key", "keywith"}
    /\ \A en \in spawnables : KeyName(en.key) # KeyName(spawnable.key)

\* The step panics and changes nothing else; the child it was for has no
\* component and is not attached to the owner; and a panic has no next step.
UnknownKeyInLedgerAborts ==
    /\ pc # "panicked"
    /\ UnknownKeyInLedger =>
        /\ pc' = "panicked"
        /\ panicMsg'.msg = "invalid spawn key"
        /\ UNCHANGED <<world, queue, entities, batch, children, parentEntity, entity, visited>>
        /\ world.components[entity] = NoComponents
        /\ ~world.spawnChildren[entity].present
        /\ world.parent[entity] = 0
        /\ \A i \in 1..Len(world.children[parentEntity]) : world.children[parentEntity][i] # entity

\* No entity the pass took has some, and not all, of the children its
\* SpawnChildren asked for.
NoEntityPartlyBuilt ==
    UnknownKeyInLedger =>
        \A e \in visited : ~(0 < Cardinality(AttachedInPass(e)) /\ Cardinality(AttachedInPass(e)) < Len(LedgerOf(e)))

\* The owner of the failing request has lost its SpawnChildren, keeps its
\* components and the children made from the requests before the failing
\* one, and has none for the failing request and those after it; the other
\* entities the pass took are complete, and nothing was made for an entity
\* the pass has not taken.
OwnerKeepsEarlierChildren ==
    UnknownKeyInLedger =>
        /\ parentEntity \in visited
        /\ ~world.spawnChildren[parentEntity].present
        /\ world.components[parentEntity] = IF parentEntity \in CreatedInPass THEN Described(origin[parentEntity].spawnable).comps ELSE passStart.components[parentEntity]
        /\ MadeFor(parentEntity) \o children = LedgerOf(parentEntity)
        /\ AttachedInPass(parentEntity) = {c \in CreatedInPass : origin[c].owner = parentEntity} \ {entity}
        /\ Cardinality(AttachedInPass(parentEntity)) = Len(LedgerOf(parentEntity)) - Len(children) - 1
        /\ \A e \in visited \ {parentEntity} : Cardinality(AttachedInPass(e)) = Len(LedgerOf(e))
        /\ \A e \in Entities(world) \ visited : AttachedInPass(e) = {} /\ MadeFor(e) = <<>>

\* C17 as stated: an unknown key in a SpawnChildren aborts the pass at that
\* request, with an empty, unattached child, nothing made after it, and no
\* entity left with only a part of the children its SpawnChildren asked for.
UnknownKeyLeavesNoPartialEntity ==
    [][UnknownKeyInLedgerAborts /\ NoEntityPartlyBuilt]_vars

\* C17 amended: ... and the owner of the failing request is left without
\* its SpawnChildren, with the children made from the earlier requests and
\* none for the failing and the later ones.
UnknownKeyAbortsAtRequest ==
    [][UnknownKeyInLedgerAborts /\ OwnerKeepsEarlierChildren]_vars

\* The second request of a SpawnChildren named an unregistered key: the pass
\* panicked, the owner has the child of the first request, the failing
\* child is empty and unattached.
UnknownKeyInLedgerWitness ==
    /\ pc = "panicked"
    /\ cont = "child"
    /\ Len(LedgerOf(parentEntity)) = 2
    /\ children = <<>>
    /\ Len(world.children[parentEntity]) = 1
    /\ world.parent[entity] = 0
    /\ world.components[entity] = NoComponents

\* C18: every pass scans the whole World.  The scan of an immediate spawn
\* and of a driver run alike lists every entity that carries a
\* SpawnChildren; when the pass returns no entity carries one; and every
\* entity that carried one when the pass began, the spawned entity or any
\* other, has got a child for each of its requests.
PassScansWholeWorld ==
    [][/\ pc = "scan" =>
            /\ caller \in {"World", "driver"}
            /\ {entities'[i] : i \in 1..Len(entities')} = {e \in Entities(world) : world.spawnChildren[e].present}
       /\ (pc = "while" /\ pc' = "idle") =>
            /\ \A e \in Entities(world') : ~world'.spawnChildren[e].present
            /\ \A e \in Entities(passStart) :
                passStart.spawnChildren[e].present =>
                    Len(world'.children[e]) = Len(passStart.children[e]) + Len(passStart.spawnChildren[e].requests)]_vars

\* The pass of an immediate spawn comes to its end having made a child for
\* the root of a deferred spawn that had been flushed before.
PassScansWholeWorldWitness ==
    /\ pc = "while"
    /\ entities = <<>>
    /\ caller = "World"
    /\ \E e \in WithSpawnChildren(passStart) :
        /\ e # root
        /\ origin[e].ctx = "Commands"
        /\ passStart.children[e] = <<>>
        /\ world.children[e] # <<>>
        /\ e \notin Subtree(world, root)

\* C19: a key-plus-extra spawnable puts the registered bundle on the entity
\* first and the extra bundle second.  After the first step the entity
\* carries what was registered; the second step sets every component of the
\* extra bundle over that and leaves the others; so a type that both hold
\* ends with the extra bundle's value.  When both hold a SpawnChildren the
\* entity carries the extra bundle's: that is what the pass takes from it,
\* and the entities made for it are those of the extra bundle's requests.
ExtraBundleOverridesRegistered ==
    [][/\ (pc = "spawn_once" /\ spawnable.kind = "keywith" /\ KeyName(spawnable.key) \in RegisteredNames) =>
            LET base == FirstSpawnable(KeyName(spawnable.key)) IN
            /\ pc' = "insert_extra"
            /\ world'.components[entity] = base.comps
            /\ world'.spawnChildren[entity] = [requests |-> base.requests, present |-> base.hasChildren]
       /\ pc = "insert_extra" =>
            LET base == FirstSpawnable(KeyName(spawnable.key))
                extra == spawnable.bundle
            IN  /\ spawnable.kind = "keywith"
                /\ \A t \in Types : world'.components[entity][t] = IF extra.comps[t] # 0 THEN extra.comps[t] ELSE base.comps[t]
                /\ world'.spawnChildren[entity] = IF extra.hasChildren THEN [requests |-> extra.requests, present |-> TRUE] ELSE [requests |-> base.requests, present |-> base.hasChildren]
       /\ (pc = "for" /\ batch # <<>> /\ origin[Head(batch)].spawnable.kind = "keywith" /\ origin[Head(batch)].spawnable.bundle.hasChildren) =>
            /\ children' = origin[Head(batch)].spawnable.bundle.requests
            /\ pc' = "invoke"
       /\ InPass =>
            \A e \in visited :
                (origin[e].spawnable.kind = "keywith" /\ origin[e].spawnable.bundle.hasChildren /\ e # parentEntity)
                    => MadeFor(e) = origin[e].spawnable.bundle.requests]_vars

\* Two entities were spawned by key with the same extra bundle {A = 2,
\* SpawnChildren}.  One key is registered with {A = 1}: the entity holds
\* A = 2.  The other is registered with a SpawnChildren of its own: the
\* entity has one child, made from the extra bundle's request.
ExtraBundleOverridesWitness ==
    /\ pc = "idle"
    /\ \E e1, e2 \in 1..Len(origin) :
        /\ origin[e1].spawnable.kind = "keywith"
        /\ KeyName(origin[e1].spawnable.key) \in RegisteredNames
        /\ FirstSpawnable(KeyName(origin[e1].spawnable.key)).comps = A1
        /\ origin[e1].spawnable.bundle.comps = A2
        /\ world.components[e1] = A2
        /\ origin[e2].spawnable.kind = "keywith"
        /\ KeyName(origin[e2].spawnable.key) \in RegisteredNames
        /\ FirstSpawnable(KeyName(origin[e2].spawnable.key)).hasChildren
        /\ origin[e2].spawnable.bundle.hasChildren
        /\ Len(world.children[e2]) = 1
        /\ origin[world.children[e2][1]].spawnable = Inline(Bundle(B1))
        /\ world.children[world.children[e2][1]] = <<>>

====
